---- MODULE Spec2Model ----
(***************************************************************************)
(* State-machine model of the ContentLoader of magentaa11y-mcp             *)
(* (src/src/content-loader.ts): the content document on disk, the loader's *)
(* four private fields, the asynchronous initialize() with its suspension  *)
(* point at fs.readFile, and the synchronous/async query operations.       *)
(*                                                                         *)
(* Representation choices                                                  *)
(*  - component names and category names are represented by their rank in  *)
(*    collation order (1, 2, ...), so that sort() is a comparison of ranks;*)
(*  - an optional string field is <<>> when absent and <<s>> when present  *)
(*    with text s (s may be the empty string);                             *)
(*  - an optional name argument is likewise <<>> when omitted and <<r>>    *)
(*    when supplied, where rank 0 stands for the empty string;             *)
(*  - every object created by JSON.parse or new Fuse gets a fresh          *)
(*    reference number; null is reference 0.                               *)
(***************************************************************************)
EXTENDS Integers, Sequences, FiniteSets, TLC

(* ------------------------------ bounds --------------------------------- *)

NumCallers == 2
MaxCalls == 3
NumNames == 2
NumCats == 2
MaxItems == 2
MaxQueryLen == 2

(* --------------------------- data model -------------------------------- *)

Callers == 1..NumCallers
Names == 1..NumNames
QueryNames == 1..(NumNames + 1)
CatNames == 1..NumCats
Platforms == {"web", "native"}

(* the category argument of a list call: omitted, the empty string, the    *)
(* name of a category, or a name no category has                           *)
CategoryArgs == {<<>>} \cup {<<c>> : c \in 0..(NumCats + 1)}

Formats == <<"gherkin", "condensed", "developerNotes", "androidDeveloperNotes", "iosDeveloperNotes">>

FormatSet == {Formats[i] : i \in 1..Len(Formats)}

Absent == <<>>

ContentItem(n, g, c, d, a, i) ==
  [name |-> n, label |-> "Label" \o ToString(n), gherkin |-> g, condensed |-> c,
   developerNotes |-> d, androidDeveloperNotes |-> a, iosDeveloperNotes |-> i]

(* The field sets a component may carry: every field is present with text  *)
(* in one of them and absent or empty in another; the last has no fields.  *)
FieldSets ==
  <<[gherkin |-> <<"Given a">>, condensed |-> <<"">>, developerNotes |-> Absent,
     androidDeveloperNotes |-> <<"android">>, iosDeveloperNotes |-> Absent],
    [gherkin |-> <<"Given b">>, condensed |-> <<"short">>, developerNotes |-> <<"dev">>,
     androidDeveloperNotes |-> <<"">>, iosDeveloperNotes |-> <<"ios">>],
    [gherkin |-> Absent, condensed |-> Absent, developerNotes |-> Absent,
     androidDeveloperNotes |-> Absent, iosDeveloperNotes |-> Absent]>>

(* The component at position pos (in load order) of a platform, named n.   *)
(* Its field set is chosen by its position, so that two components of the *)
(* same name in one platform differ in their fields.                       *)
ItemAt(n, pos) ==
  LET fs == FieldSets[((pos - 1) % Len(FieldSets)) + 1]
  IN ContentItem(n, fs.gherkin, fs.condensed, fs.developerNotes,
                 fs.androidDeveloperNotes, fs.iosDeveloperNotes)

ContentCategory(c, ch) == [name |-> c, label |-> "Category" \o ToString(c), children |-> ch]

SeqsUpTo(S, k) == UNION {[1..m -> S] : m \in 0..k}

RECURSIVE Sum(_)
Sum(counts) == IF counts = <<>> THEN 0 ELSE Head(counts) + Sum(Tail(counts))

RECURSIVE ComponentCount(_)
ComponentCount(cats) ==
  IF cats = <<>> THEN 0 ELSE Len(Head(cats).children) + ComponentCount(Tail(cats))

(* how many children each category has: at most NumCats categories and at  *)
(* most MaxItems components in the platform                                *)
ChildCounts == {counts \in SeqsUpTo(0..MaxItems, NumCats) : Sum(counts) <= MaxItems}

(* A platform: category i has counts[i] children, the components are named *)
(* by names in load order, and the category names ascend or descend.       *)
Platform(counts, names, ascending) ==
  [i \in 1..Len(counts) |->
     ContentCategory(IF ascending THEN i ELSE Len(counts) + 1 - i,
                     [j \in 1..counts[i] |->
                        ItemAt(names[Sum(SubSeq(counts, 1, i - 1)) + j],
                               Sum(SubSeq(counts, 1, i - 1)) + j)])]

PlatformValues ==
  UNION {{Platform(counts, names, asc) : names \in [1..Sum(counts) -> Names], asc \in BOOLEAN}
         : counts \in ChildCounts}

HowToTest == <<ContentCategory(1, <<ContentItem(1, <<"how">>, Absent, Absent, Absent, Absent)>>)>>

SmallPlatform == <<ContentCategory(1, <<ItemAt(1, 1)>>)>>

ContentStructure(w, n) == [p \in {"web", "native", "how-to-test"} |->
                             IF p = "web" THEN w ELSE IF p = "native" THEN n ELSE HowToTest]

WithoutKey(doc, k) == [p \in (DOMAIN doc) \ {k} |-> doc[p]]

FullDoc == ContentStructure(SmallPlatform, SmallPlatform)

File(kind, doc) == [kind |-> kind, doc |-> doc]

LifecycleFiles ==
  {File("missing", FullDoc), File("malformed", FullDoc), File("null", FullDoc),
   File("object", WithoutKey(FullDoc, "web")), File("object", WithoutKey(FullDoc, "native")),
   File("object", FullDoc)}

QueryFiles ==
  {File("object", ContentStructure(w, SmallPlatform)) : w \in PlatformValues}
  \cup {File("object", ContentStructure(SmallPlatform, n)) : n \in PlatformValues}

(* ----------------------- results and errors ---------------------------- *)

NoValue == <<>>

Return(v) == [ok |-> TRUE, err |-> "", val |-> v]

Throw(message) == [ok |-> FALSE, err |-> message, val |-> NoValue]

ContentNotLoaded == "Content not loaded"
SearchIndexNotInitialized == "Search index not initialized"
ComponentNotFound == "Component not found"
ContentNotAvailable == "content not available for component"
NotIterable == "TypeError: not iterable"
FailedToInitialize == "Failed to initialize content"

(* ------------------------- references (heap) --------------------------- *)

Null == [ref |-> 0]

IsNull(x) == x.ref = 0

ContentObject(r, doc) == [ref |-> r, doc |-> doc]

FuseObject(r, items) == [ref |-> r, items |-> items]

(* --------------------------- pure helpers ------------------------------ *)

HasKey(cont, platform) == platform \in DOMAIN cont.doc

TruthyIfPresent(field) == field # Absent

Truthy(field) == field # Absent /\ field[1] # ""

WithCategory(item, category) ==
  [name |-> item.name, label |-> item.label, gherkin |-> item.gherkin,
   condensed |-> item.condensed, developerNotes |-> item.developerNotes,
   androidDeveloperNotes |-> item.androidDeveloperNotes,
   iosDeveloperNotes |-> item.iosDeveloperNotes,
   categoryName |-> category.name, categoryLabel |-> category.label]

RECURSIVE FlattenItems(_)
FlattenItems(cats) ==
  IF cats = <<>> THEN <<>>
  ELSE [i \in 1..Len(Head(cats).children) |-> WithCategory(Head(cats).children[i], Head(cats))]
       \o FlattenItems(Tail(cats))

createSearchIndexLenient(cont, platform) ==
  IF IsNull(cont) THEN Throw(ContentNotLoaded)
  ELSE IF ~HasKey(cont, platform) THEN Return(<<>>)
  ELSE Return(FlattenItems(cont.doc[platform]))

createSearchIndex(cont, platform) ==
  IF IsNull(cont) THEN Throw(ContentNotLoaded)
  ELSE IF ~HasKey(cont, platform) THEN Throw(NotIterable)
  ELSE Return(FlattenItems(cont.doc[platform]))

ComponentMetadata(item, cat, platform) ==
  [name |-> item.name, displayName |-> item.label, category |-> cat.name, platform |-> platform,
   hasGherkin |-> Truthy(item.gherkin), hasCondensed |-> Truthy(item.condensed),
   hasDeveloperNotes |-> Truthy(item.developerNotes),
   hasAndroidNotes |-> Truthy(item.androidDeveloperNotes),
   hasIOSNotes |-> Truthy(item.iosDeveloperNotes)]

(* `category &&`: the filter applies when it is supplied and not empty     *)
IsFilter(category) == category # Absent /\ category[1] # 0

RECURSIVE CollectEveryCategory(_, _, _)
CollectEveryCategory(cats, platform, category) ==
  IF cats = <<>> THEN <<>>
  ELSE [i \in 1..Len(Head(cats).children) |->
          ComponentMetadata(Head(cats).children[i], Head(cats), platform)]
       \o CollectEveryCategory(Tail(cats), platform, category)

RECURSIVE CollectComponents(_, _, _)
CollectComponents(cats, platform, category) ==
  IF cats = <<>> THEN <<>>
  ELSE (IF IsFilter(category) /\ Head(cats).name # category[1] THEN <<>>
        ELSE [i \in 1..Len(Head(cats).children) |->
                ComponentMetadata(Head(cats).children[i], Head(cats), platform)])
       \o CollectComponents(Tail(cats), platform, category)

RECURSIVE InsertBeforeEqual(_, _)
InsertBeforeEqual(x, sorted) ==
  IF sorted = <<>> THEN <<x>>
  ELSE IF x.name <= Head(sorted).name THEN <<x>> \o sorted
  ELSE <<Head(sorted)>> \o InsertBeforeEqual(x, Tail(sorted))

RECURSIVE InsertByName(_, _)
InsertByName(x, sorted) ==
  IF sorted = <<>> THEN <<x>>
  ELSE IF x.name < Head(sorted).name THEN <<x>> \o sorted
  ELSE <<Head(sorted)>> \o InsertByName(x, Tail(sorted))

KeepLoadOrder(s) == s

RECURSIVE SortByName(_)
SortByName(s) ==
  IF s = <<>> THEN <<>>
  ELSE InsertByName(s[Len(s)], SortByName(SubSeq(s, 1, Len(s) - 1)))

RECURSIVE InsertAscending(_, _)
InsertAscending(x, sorted) ==
  IF sorted = <<>> THEN <<x>>
  ELSE IF x < Head(sorted) THEN <<x>> \o sorted
  ELSE <<Head(sorted)>> \o InsertAscending(x, Tail(sorted))

RECURSIVE SortAscending(_)
SortAscending(s) ==
  IF s = <<>> THEN <<>>
  ELSE InsertAscending(s[Len(s)], SortAscending(SubSeq(s, 1, Len(s) - 1)))

(* Array.prototype.find on the name: the index of the first match, or 0    *)
FindByName(s, n) ==
  IF \E i \in 1..Len(s) : s[i].name = n
  THEN CHOOSE i \in 1..Len(s) : s[i].name = n /\ \A j \in 1..(i - 1) : s[j].name # n
  ELSE 0

(* ------------------------- query operations ---------------------------- *)

listComponents(cont, platform, category) ==
  IF IsNull(cont) THEN Throw(ContentNotLoaded)
  ELSE IF ~HasKey(cont, platform) THEN Throw(NotIterable)
  ELSE Return(SortByName(CollectComponents(cont.doc[platform], platform, category)))

getCategories(cont, platform) ==
  IF IsNull(cont) THEN Throw(ContentNotLoaded)
  ELSE IF ~HasKey(cont, platform) THEN Throw(NotIterable)
  ELSE Return(SortAscending([i \in 1..Len(cont.doc[platform]) |-> cont.doc[platform][i].name]))

FindInFirstCategory(cats, componentName) ==
  IF cats = <<>> THEN Throw(ComponentNotFound)
  ELSE LET category == Head(cats)
           k == FindByName(category.children, componentName)
       IN IF k # 0 THEN Return(WithCategory(category.children[k], category))
          ELSE Throw(ComponentNotFound)

RECURSIVE FindComponentLastWins(_, _)
FindComponentLastWins(cats, componentName) ==
  IF cats = <<>> THEN Throw(ComponentNotFound)
  ELSE LET category == cats[Len(cats)]
           k == FindByName(category.children, componentName)
       IN IF k # 0 THEN Return(WithCategory(category.children[k], category))
          ELSE FindComponentLastWins(SubSeq(cats, 1, Len(cats) - 1), componentName)

RECURSIVE FindComponent(_, _)
FindComponent(cats, componentName) ==
  IF cats = <<>> THEN Throw(ComponentNotFound)
  ELSE LET category == Head(cats)
           k == FindByName(category.children, componentName)
       IN IF k # 0 THEN Return(WithCategory(category.children[k], category))
          ELSE FindComponent(Tail(cats), componentName)

getComponent(cont, platform, componentName) ==
  IF IsNull(cont) THEN Throw(ContentNotLoaded)
  ELSE IF ~HasKey(cont, platform) THEN Throw(NotIterable)
  ELSE FindComponent(cont.doc[platform], componentName)

getComponentContent(cont, platform, componentName, format) ==
  LET component == getComponent(cont, platform, componentName)
  IN IF ~component.ok THEN component
     ELSE IF ~Truthy(component.val[format]) THEN Throw(ContentNotAvailable)
     ELSE Return(component.val[format][1])

FormatFlag(component, format) ==
  CASE format = "gherkin" -> component.hasGherkin
    [] format = "condensed" -> component.hasCondensed
    [] format = "developerNotes" -> component.hasDeveloperNotes
    [] format = "androidDeveloperNotes" -> component.hasAndroidNotes
    [] format = "iosDeveloperNotes" -> component.hasIOSNotes

getAvailableFormatsUncaught(cont, platform, componentName) ==
  LET components == listComponents(cont, platform, Absent)
  IN IF ~components.ok THEN components
     ELSE LET k == FindByName(components.val, componentName)
          IN IF k = 0 THEN Throw(ComponentNotFound)
             ELSE Return(SelectSeq(Formats, LAMBDA f : FormatFlag(components.val[k], f)))

getAvailableFormats(cont, platform, componentName) ==
  LET components == listComponents(cont, platform, Absent)
  IN IF ~components.ok THEN Return(<<>>)
     ELSE LET k == FindByName(components.val, componentName)
          IN IF k = 0 THEN Return(<<>>)
             ELSE Return(SelectSeq(Formats, LAMBDA f : FormatFlag(components.val[k], f)))

(* Fuse.js is a library: search(query) yields some ranking of distinct     *)
(* records of the collection; which ones and in which order is left open.  *)
(* The indices are built without includeScore / includeMatches, so a       *)
(* result carries only the record (score and matches are undefined).       *)
FuseRankings(items) ==
  {r \in SeqsUpTo(1..Len(items), Len(items)) : \A i, j \in 1..Len(r) : i # j => r[i] # r[j]}

Slice(s, limit) == SubSeq(s, 1, IF limit < Len(s) THEN limit ELSE Len(s))

DefaultMaxResults == 10
DefaultSimilarLimit == 5

SearchResult(item) ==
  [component |-> item.name, displayName |-> item.label, category |-> item.categoryName,
   categoryLabel |-> item.categoryLabel, matches |-> <<>>, relevance |-> 1]

searchUnlimited(searchIndex, maxResults, ranking) ==
  IF IsNull(searchIndex) THEN Throw(SearchIndexNotInitialized)
  ELSE Return([i \in 1..Len(ranking) |-> SearchResult(searchIndex.items[ranking[i]])])

search(searchIndex, maxResults, ranking) ==
  IF IsNull(searchIndex) THEN Throw(SearchIndexNotInitialized)
  ELSE Return([i \in 1..Len(Slice(ranking, maxResults)) |->
                 SearchResult(searchIndex.items[Slice(ranking, maxResults)[i]])])

getSimilarComponentsUnlimited(cont, platform, limit, ranking) ==
  LET components == listComponents(cont, platform, Absent)
  IN IF ~components.ok THEN components
     ELSE Return([i \in 1..Len(ranking) |-> components.val[ranking[i]].name])

getSimilarComponents(cont, platform, limit, ranking) ==
  LET components == listComponents(cont, platform, Absent)
  IN IF ~components.ok THEN components
     ELSE Return([i \in 1..Len(Slice(ranking, limit)) |->
                    components.val[Slice(ranking, limit)[i]].name])

(* -------------------------- extractSnippet ----------------------------- *)

(* A string is the sequence of its characters.  The alphabet is the        *)
(* letters a, b in both cases, the filler x and the period.                *)
Lower(ch) == CASE ch = "A" -> "a" [] ch = "B" -> "b" [] OTHER -> ch

toLowerCase(str) == [i \in 1..Len(str) |-> Lower(str[i])]

Max(a, b) == IF a > b THEN a ELSE b

Min(a, b) == IF a < b THEN a ELSE b

(* String.prototype.indexOf: the 0-based index of the first occurrence of  *)
(* searchString in str, -1 when there is none                              *)
indexOf(str, searchString) ==
  LET hits == {i \in 0..(Len(str) - Len(searchString)) :
                 SubSeq(str, i + 1, i + Len(searchString)) = searchString}
  IN IF hits = {} THEN -1 ELSE CHOOSE i \in hits : \A j \in hits : i <= j

(* String.prototype.substring(start, end) for 0 <= start <= end            *)
substring(str, start, end) == SubSeq(str, start + 1, Min(end, Len(str)))

Ellipsis == <<".", ".", ".">>

LeadingContext == 50
TrailingContext == 150
DefaultMaxLength == 200

extractSnippetNoTrailingMark(text, query, maxLength) ==
  LET index == indexOf(toLowerCase(text), toLowerCase(query))
      start == Max(0, index - LeadingContext)
      end == Min(Len(text), index + Len(query) + TrailingContext)
  IN IF index = -1 THEN substring(text, 0, maxLength)
     ELSE (IF start > 0 THEN Ellipsis ELSE <<>>) \o substring(text, start, end)

extractSnippet(text, query, maxLength) ==
  LET index == indexOf(toLowerCase(text), toLowerCase(query))
      start == Max(0, index - LeadingContext)
      end == Min(Len(text), index + Len(query) + TrailingContext)
  IN IF index = -1 THEN substring(text, 0, maxLength)
     ELSE (IF start > 0 THEN Ellipsis ELSE <<>>)
          \o substring(text, start, end)
          \o (IF end < Len(text) THEN Ellipsis ELSE <<>>)

(* ---------------------------- initialize ------------------------------- *)

NeverIndexed(idx) == FALSE

AlreadyIndexed(idx) == idx

Fields(c, w, n, idx) == [content |-> c, webSearchIndex |-> w, nativeSearchIndex |-> n, indexed |-> idx]

Outcome(fields, threw, parsed, built) == [fields |-> fields, threw |-> threw, parsed |-> parsed, built |-> built]

(* The synchronous part of initialize that runs when readFile settles.     *)
(* io is the outcome of the read, r the reference of the objects it makes. *)
TryBlock(fields, file, io, r) ==
  IF io = "EIO" \/ file.kind = "missing" THEN Outcome(fields, TRUE, FALSE, FALSE)
  ELSE IF file.kind = "malformed" THEN Outcome(fields, TRUE, FALSE, FALSE)
  ELSE LET c == IF file.kind = "null" THEN Null ELSE ContentObject(r, file.doc)
           w == createSearchIndex(c, "web")
           n == createSearchIndex(c, "native")
       IN IF ~w.ok
          THEN Outcome([fields EXCEPT !.content = c], TRUE, TRUE, FALSE)
          ELSE IF ~n.ok
          THEN Outcome([fields EXCEPT !.content = c, !.webSearchIndex = FuseObject(r, w.val)],
                       TRUE, TRUE, FALSE)
          ELSE Outcome(Fields(c, FuseObject(r, w.val), FuseObject(r, n.val), TRUE),
                       FALSE, TRUE, TRUE)

LoadAndIndexMarkOnError(fields, file, io, r) ==
  LET o == TryBlock(fields, file, io, r)
  IN IF o.threw THEN [o EXCEPT !.fields.indexed = TRUE] ELSE o

LoadAndIndexResetOnError(fields, file, io, r) ==
  LET o == TryBlock(fields, file, io, r)
  IN IF o.threw THEN [o EXCEPT !.fields.indexed = FALSE] ELSE o

(* try { ... } catch: the catch block logs and rethrows; it assigns nothing *)
LoadAndIndex(fields, file, io, r) == TryBlock(fields, file, io, r)

(* --------------------------- tool handlers ----------------------------- *)

(* The three servers expose the same eleven tools.  A tool result is the   *)
(* isError flag and the body that is sent as text (the parsed JSON where   *)
(* the text is JSON.stringify of an object).                               *)
Transports == {"stdio", "sse", "netlify"}

ListTools == {"list_web_components", "list_native_components"}

GetTools == {"get_web_component", "get_native_component"}

SearchTools == {"search_web_criteria", "search_native_criteria"}

FormatTools ==
  {"get_component_gherkin", "get_component_condensed", "get_component_developer_notes"}

UnknownToolName == "no_such_tool"

ToolNames ==
  ListTools \cup GetTools \cup SearchTools \cup FormatTools
  \cup {"get_component_native_notes", "list_component_formats", UnknownToolName}

UnknownTool == "Unknown tool"

Arguments(platform, component, category, max_results) ==
  [platform |-> platform, component |-> component, category |-> category,
   max_results |-> max_results]

(* a tools/call request without arguments: args is undefined, "args?.x" is *)
(* undefined and "args.x" throws a TypeError                              *)
NoArguments ==
  [platform |-> "", component |-> 0, category |-> Absent, max_results |-> Absent,
   undefined |-> TRUE]

CannotReadProperties == "Cannot read properties of undefined"

TextResult(body) == [isError |-> FALSE, body |-> body]

ErrorResult(body) == [isError |-> TRUE, body |-> body]

ToolPlatform(name) == IF name \in {"list_web_components", "get_web_component",
                                    "search_web_criteria"} THEN "web" ELSE "native"

ToolFormat(name) ==
  CASE name = "get_component_gherkin" -> "gherkin"
    [] name = "get_component_condensed" -> "condensed"
    [] name = "get_component_developer_notes" -> "developerNotes"

NativeNotesFormatAndroidOnly(args) ==
  IF args.platform = "android" THEN "androidDeveloperNotes" ELSE "iosDeveloperNotes"

NativeNotesFormat(args) ==
  IF args.platform = "ios" THEN "iosDeveloperNotes" ELSE "androidDeveloperNotes"

(* args?.max_results || 10 *)
MaxResultsOf(args) ==
  IF args.max_results = Absent \/ args.max_results[1] = 0 THEN DefaultMaxResults
  ELSE args.max_results[1]

SearchIndexOf(ldr, platform) ==
  IF platform = "web" THEN ldr.webSearchIndex ELSE ldr.nativeSearchIndex

FormatsBody(args, component, formats) ==
  [component |-> args.component, displayName |-> component.label,
   platform |-> args.platform, availableFormats |-> formats]

handleListComponents(ldr, platform, args) ==
  LET components == listComponents(ldr.content, platform, args.category)
      categories == getCategories(ldr.content, platform)
  IN IF ~components.ok THEN components
     ELSE IF ~categories.ok THEN categories
     ELSE Return(TextResult([components |-> components.val, categories |-> categories.val]))

handleSearchCriteria(ldr, platform, args, ranking) ==
  IF args = NoArguments THEN Throw(CannotReadProperties) ELSE
  LET results == search(SearchIndexOf(ldr, platform), MaxResultsOf(args), ranking)
  IN IF ~results.ok THEN results ELSE Return(TextResult(results.val))

handleGetComponent(ldr, platform, args, ranking) ==
  IF args = NoArguments THEN Throw(CannotReadProperties) ELSE
  LET componentData == getComponent(ldr.content, platform, args.component)
      suggestions == getSimilarComponents(ldr.content, platform, DefaultSimilarLimit, ranking)
  IN IF componentData.ok THEN Return(TextResult(componentData.val))
     ELSE IF ~suggestions.ok THEN suggestions
     ELSE Return(ErrorResult([error |-> ComponentNotFound, component |-> args.component,
                              suggestions |-> suggestions.val]))

handleGetComponentFormat(ldr, format, args, ranking) ==
  IF args = NoArguments THEN Throw(CannotReadProperties) ELSE
  LET text == getComponentContent(ldr.content, args.platform, args.component, format)
      suggestions ==
        getSimilarComponents(ldr.content, args.platform, DefaultSimilarLimit, ranking)
      formats == getAvailableFormats(ldr.content, args.platform, args.component)
  IN IF text.ok THEN Return(TextResult(text.val))
     ELSE IF ~suggestions.ok THEN suggestions
     ELSE Return(ErrorResult([error |-> text.err, component |-> args.component,
                              suggestions |-> suggestions.val,
                              availableFormats |-> formats.val]))

handleGetComponentNativeNotes(ldr, args, ranking) ==
  IF args = NoArguments THEN Throw(CannotReadProperties) ELSE
  LET text == getComponentContent(ldr.content, "native", args.component,
                                  NativeNotesFormat(args))
      suggestions == getSimilarComponents(ldr.content, "native", DefaultSimilarLimit, ranking)
      formats == getAvailableFormats(ldr.content, "native", args.component)
  IN IF text.ok THEN Return(TextResult(text.val))
     ELSE IF ~suggestions.ok THEN suggestions
     ELSE Return(ErrorResult([error |-> text.err, component |-> args.component,
                              platform |-> args.platform, suggestions |-> suggestions.val,
                              availableFormats |-> formats.val]))

handleListComponentFormats(ldr, args, ranking) ==
  IF args = NoArguments THEN Throw(CannotReadProperties) ELSE
  LET formats == getAvailableFormats(ldr.content, args.platform, args.component)
      component == getComponent(ldr.content, args.platform, args.component)
      suggestions ==
        getSimilarComponents(ldr.content, args.platform, DefaultSimilarLimit, ranking)
  IN IF component.ok THEN Return(TextResult(FormatsBody(args, component.val, formats.val)))
     ELSE IF ~suggestions.ok THEN suggestions
     ELSE Return(ErrorResult([error |-> component.err, component |-> args.component,
                              suggestions |-> suggestions.val]))

(* the switch of the stdio and of the HTTP/SSE call-tool handler *)
Dispatch(ldr, name, args, ranking) ==
  CASE name \in ListTools -> handleListComponents(ldr, ToolPlatform(name), args)
    [] name \in GetTools -> handleGetComponent(ldr, ToolPlatform(name), args, ranking)
    [] name \in SearchTools -> handleSearchCriteria(ldr, ToolPlatform(name), args, ranking)
    [] name \in FormatTools -> handleGetComponentFormat(ldr, ToolFormat(name), args, ranking)
    [] name = "get_component_native_notes" -> handleGetComponentNativeNotes(ldr, args, ranking)
    [] name = "list_component_formats" -> handleListComponentFormats(ldr, args, ranking)
    [] OTHER -> Throw(UnknownTool)

CallToolRequestUncaught(ldr, name, args, ranking) ==
  LET r == Dispatch(ldr, name, args, ranking)
  IN IF r.ok THEN r.val ELSE [thrown |-> r.err]

(* try { switch ... } catch (error): the error message alone *)
CallToolRequest(ldr, name, args, ranking) ==
  LET r == Dispatch(ldr, name, args, ranking)
  IN IF r.ok THEN r.val ELSE ErrorResult([error |-> r.err])

(* the Netlify function has no per-tool handlers: one try block around the *)
(* switch, one catch that answers with the error message                   *)
NetlifyCase(ldr, name, args, ranking) ==
  CASE name \in ListTools -> handleListComponents(ldr, ToolPlatform(name), args)
    [] args = NoArguments /\ name \in ToolNames \ {UnknownToolName} ->
         Throw(CannotReadProperties)
    [] name \in GetTools ->
         LET data == getComponent(ldr.content, ToolPlatform(name), args.component)
         IN IF data.ok THEN Return(TextResult(data.val)) ELSE data
    [] name \in SearchTools -> handleSearchCriteria(ldr, ToolPlatform(name), args, ranking)
    [] name \in FormatTools ->
         LET text == getComponentContent(ldr.content, args.platform, args.component,
                                         ToolFormat(name))
         IN IF text.ok THEN Return(TextResult(text.val)) ELSE text
    [] name = "get_component_native_notes" ->
         LET text == getComponentContent(ldr.content, "native", args.component,
                                         NativeNotesFormat(args))
         IN IF text.ok THEN Return(TextResult(text.val)) ELSE text
    [] name = "list_component_formats" ->
         LET formats == getAvailableFormats(ldr.content, args.platform, args.component)
             component == getComponent(ldr.content, args.platform, args.component)
         IN IF component.ok
            THEN Return(TextResult(FormatsBody(args, component.val, formats.val)))
            ELSE component
    [] OTHER -> Throw(UnknownTool)

handleToolCall(ldr, name, args, ranking) ==
  LET r == NetlifyCase(ldr, name, args, ranking)
  IN IF r.ok THEN r.val ELSE ErrorResult([error |-> r.err])

(* ------------------------------ state ---------------------------------- *)

(* disk is the content document at CONTENT_JSON_PATH; the corpus is static  *)
(* for the lifetime of the process, a read of it may still fail (io).      *)
VARIABLES disk, content, webSearchIndex, nativeSearchIndex, indexed,
          nextRef, pc, ret, budget, loads, builds, last,
          matchValue, matchQuery, snippet, response,
          server, initPromise, isInitialized, http

vars == <<disk, content, webSearchIndex, nativeSearchIndex, indexed,
          nextRef, pc, ret, budget, loads, builds, last,
          matchValue, matchQuery, snippet, response,
          server, initPromise, isInitialized, http>>

(* the process that hosts the loader: the position of main in the stdio    *)
(* and HTTP/SSE servers; the shared promise, the flag and the requests in  *)
(* flight of the Netlify function                                          *)
host == <<server, initPromise, isInitialized, http>>

(* the arguments and the result of a call of extractSnippet: the text of   *)
(* a matched field, the query, and the snippet once it is computed         *)
snip == <<matchValue, matchQuery, snippet>>

NotCalled == [called |-> FALSE, val |-> <<>>]

Called(v) == [called |-> TRUE, val |-> v]

loader == <<content, webSearchIndex, nativeSearchIndex, indexed>>

NoQuery ==
  [op |-> "none", platform |-> "", name |-> 0, format |-> "", category |-> Absent, limit |-> 0,
   ready |-> FALSE, saw |-> {}, ok |-> TRUE, err |-> "", val |-> NoValue]

Constructed(clients) ==
  /\ content = Null
  /\ webSearchIndex = Null
  /\ nativeSearchIndex = Null
  /\ indexed = FALSE
  /\ nextRef = 1
  /\ pc = [c \in Callers |-> IF c \in clients THEN "idle" ELSE "off"]
  /\ ret = [c \in Callers |-> "none"]
  /\ loads = 0
  /\ builds = 0
  /\ last = NoQuery

(* the tool call being answered by a server: its transport, the tool name  *)
(* and arguments of the request, and the result the handler returns        *)
NoResponse ==
  [transport |-> "none", name |-> "", arguments |-> Arguments("", 0, Absent, Absent),
   result |-> TextResult(NoValue)]

NoSnippet == matchValue = <<>> /\ matchQuery = <<>> /\ snippet = NotCalled

(* main of the stdio server and of the HTTP/SSE server: where it stands,  *)
(* whether it has reported a failure, and the exit code of the process     *)
NoServer == [transport |-> "none", phase |-> "off", reported |-> FALSE, exitCode |-> 0]

Started(transport) ==
  [transport |-> transport, phase |-> "main", reported |-> FALSE, exitCode |-> 0]

ServingPhase(transport) == IF transport = "stdio" THEN "connected" ELSE "listening"

Serving(srv) == srv.phase \in {"connected", "listening"}

FailureExitCode == 1

ConnectAnyway(srv, outcome) ==
  [srv EXCEPT !.phase = ServingPhase(srv.transport), !.reported = (outcome # "ok")]

(* main after the await of contentLoader.initialize: connect the transport *)
(* (listen on the port), or report the failure and exit the process        *)
AfterInitialize(srv, outcome) ==
  IF outcome = "ok"
  THEN [srv EXCEPT !.phase = ServingPhase(srv.transport)]
  ELSE [srv EXCEPT !.phase = "exited", !.reported = TRUE, !.exitCode = FailureExitCode]

(* a request to the Netlify function: the position of its handler, the     *)
(* state in which a POST found the shared promise, and the HTTP status,    *)
(* the JSON-RPC error code and the tool result of its answer               *)
NoRequest ==
  [pc |-> "none", method |-> "", found |-> "", status |-> 0, code |-> 0, tool |-> FALSE,
   result |-> TextResult(NoValue)]

NoContent == 204

OK == 200

InternalServerError == 500

MethodNotFound == -32601

InternalError == -32603

Answered(request, method, status, code) ==
  [request EXCEPT !.pc = "done", !.method = method, !.status = status, !.code = code]

ToolAnswered(request, result) ==
  [request EXCEPT !.pc = "done", !.status = OK, !.tool = TRUE, !.result = result]

Awaiting(request, position, promise) ==
  [request EXCEPT !.pc = position, !.method = "POST", !.found = promise]

NoHost ==
  /\ server = NoServer
  /\ initPromise = "null"
  /\ isInitialized = FALSE
  /\ http = [r \in Callers |-> NoRequest]

Init ==
  /\ disk \in LifecycleFiles
  /\ budget = MaxCalls
  /\ Constructed(Callers)
  /\ NoSnippet
  /\ response = NoResponse
  /\ NoHost

InitQuery ==
  /\ disk \in QueryFiles
  /\ budget = 1
  /\ Constructed({1})
  /\ NoSnippet
  /\ response = NoResponse
  /\ NoHost

(* The inputs of extractSnippet: queries of up to MaxQueryLen letters, and *)
(* field texts made of filler, then (possibly) the query in either case,   *)
(* once or twice, then filler; the filler lengths lie around the context   *)
(* sizes and the maximum length of the code.                               *)
Queries == SeqsUpTo({"a", "B"}, MaxQueryLen)

SwapCase(str) ==
  [i \in 1..Len(str) |-> CASE str[i] = "a" -> "A" [] str[i] = "B" -> "b" [] OTHER -> str[i]]

Filler(k) == [i \in 1..k |-> "x"]

LeadLengths == {0, 1, LeadingContext - 1, LeadingContext, LeadingContext + 1}

TrailLengths ==
  {0, 1, TrailingContext - 1, TrailingContext, TrailingContext + 1,
   DefaultMaxLength, DefaultMaxLength + 1}

Occurrences(q) == {<<>>, q, SwapCase(q), SwapCase(q) \o <<"x">> \o q}

Texts(q) ==
  {Filler(lead) \o occ \o Filler(trail) :
     lead \in LeadLengths, occ \in Occurrences(q), trail \in TrailLengths}

InitSnippet ==
  /\ disk = File("object", FullDoc)
  /\ budget = 0
  /\ Constructed({})
  /\ matchQuery \in Queries
  /\ matchValue \in Texts(matchQuery)
  /\ snippet = NotCalled
  /\ response = NoResponse
  /\ NoHost

(* The arguments clients send: the platform argument is not validated by   *)
(* the servers, so the platform names of the native notes tool and the     *)
(* third key of the document are sent to the other tools as well.          *)
ToolPlatforms == {"web", "native", "ios", "android", "how-to-test"}

SuppliedArguments(name) ==
  CASE name \in ListTools -> {Arguments("", 0, c, Absent) : c \in CategoryArgs}
    [] name \in GetTools -> {Arguments("", n, Absent, Absent) : n \in QueryNames}
    [] name \in SearchTools -> {Arguments("", 0, Absent, m) : m \in {Absent, <<0>>, <<1>>}}
    [] name = UnknownToolName -> {Arguments("", 0, Absent, Absent)}
    [] OTHER -> {Arguments(p, n, Absent, Absent) : p \in ToolPlatforms, n \in QueryNames}

ToolArguments(name) == SuppliedArguments(name) \cup {NoArguments}

(* corpora for the tool calls: two categories of one component each in    *)
(* either platform, the platforms named independently of each other        *)
ToolFiles ==
  {File("object", ContentStructure(Platform(<<1, 1>>, web, TRUE),
                                   Platform(<<1, 1>>, native, TRUE)))
     : web \in {<<1, 2>>, <<2, 1>>, <<1, 1>>}, native \in {<<1, 2>>, <<2, 1>>, <<1, 1>>}}

InitTools ==
  /\ disk \in ToolFiles
  /\ budget = 1
  /\ Constructed({1})
  /\ NoSnippet
  /\ response = NoResponse
  /\ NoHost

(* ----------------------------- actions --------------------------------- *)

BeginInitialize(c) ==
  /\ pc[c] = "idle"
  /\ budget > 0
  /\ budget' = budget - 1
  /\ IF AlreadyIndexed(indexed)
     THEN /\ ret' = [ret EXCEPT ![c] = "ok"]
          /\ UNCHANGED <<pc, loads>>
     ELSE /\ pc' = [pc EXCEPT ![c] = "readFile"]
          /\ ret' = [ret EXCEPT ![c] = "none"]
          /\ loads' = loads + 1
  /\ UNCHANGED <<disk, loader, nextRef, builds, last, snip, response>>

InitializeCall(c) == BeginInitialize(c) /\ UNCHANGED host

EndInitialize(c, io) ==
  /\ pc[c] = "readFile"
  /\ LET o == LoadAndIndex(Fields(content, webSearchIndex, nativeSearchIndex, indexed),
                           disk, io, nextRef)
     IN /\ content' = o.fields.content
        /\ webSearchIndex' = o.fields.webSearchIndex
        /\ nativeSearchIndex' = o.fields.nativeSearchIndex
        /\ indexed' = o.fields.indexed
        /\ nextRef' = IF o.parsed THEN nextRef + 1 ELSE nextRef
        /\ builds' = IF o.built THEN builds + 1 ELSE builds
        /\ ret' = [ret EXCEPT ![c] = IF o.threw THEN FailedToInitialize ELSE "ok"]
  /\ pc' = [pc EXCEPT ![c] = "idle"]
  /\ UNCHANGED <<disk, budget, loads, last, snip, response>>

InitializeResume(c, io) == EndInitialize(c, io) /\ UNCHANGED host

Saw ==
  (IF IsNull(content) THEN {} ELSE {"content"})
  \cup (IF IsNull(webSearchIndex) THEN {} ELSE {"web"})
  \cup (IF IsNull(nativeSearchIndex) THEN {} ELSE {"native"})

Query(op, p, n, f, cat, lim, result) ==
  [op |-> op, platform |-> p, name |-> n, format |-> f, category |-> cat, limit |-> lim,
   ready |-> indexed, saw |-> Saw, ok |-> result.ok, err |-> result.err, val |-> result.val]

AnswerConsumingIndex(q) ==
  /\ last = NoQuery
  /\ last' = q
  /\ webSearchIndex' = IF q.op = "search" /\ q.platform = "web" THEN Null ELSE webSearchIndex
  /\ UNCHANGED <<disk, content, nativeSearchIndex, indexed, nextRef, pc, ret, budget, loads,
                 builds, snip, response, host>>

(* A query runs to completion on the single JavaScript thread; its result   *)
(* is held in last until the calling tool handler has sent its response.   *)
Answer(q) ==
  /\ last = NoQuery
  /\ last' = q
  /\ UNCHANGED <<disk, loader, nextRef, pc, ret, budget, loads, builds, snip, response, host>>

ListComponents(p, cat) ==
  Answer(Query("listComponents", p, 0, "", cat, 0, listComponents(content, p, cat)))

GetCategories(p) ==
  Answer(Query("getCategories", p, 0, "", Absent, 0, getCategories(content, p)))

GetComponent(p, n) ==
  Answer(Query("getComponent", p, n, "", Absent, 0, getComponent(content, p, n)))

GetComponentContent(p, n, f) ==
  Answer(Query("getComponentContent", p, n, f, Absent, 0, getComponentContent(content, p, n, f)))

IndexOf(p) == IF p = "web" THEN webSearchIndex ELSE nativeSearchIndex

Search(p, lim) ==
  /\ last = NoQuery
  /\ \E r \in (IF IsNull(IndexOf(p)) THEN {<<>>} ELSE FuseRankings(IndexOf(p).items)) :
    Answer(Query("search", p, 0, "", Absent, lim, search(IndexOf(p), lim, r)))

GetSimilarComponents(p, n, lim) ==
  LET components == listComponents(content, p, Absent)
  IN /\ last = NoQuery
     /\ \E r \in (IF components.ok THEN FuseRankings(components.val) ELSE {<<>>}) :
       Answer(Query("getSimilarComponents", p, n, "", Absent, lim,
                    getSimilarComponents(content, p, lim, r)))

GetAvailableFormats(p, n) ==
  Answer(Query("getAvailableFormats", p, n, "", Absent, 0, getAvailableFormats(content, p, n)))

Respond ==
  /\ last # NoQuery
  /\ last' = NoQuery
  /\ UNCHANGED <<disk, loader, nextRef, pc, ret, budget, loads, builds, snip, response, host>>

ExtractSnippet ==
  /\ ~snippet.called
  /\ snippet' = Called(extractSnippet(matchValue, matchQuery, DefaultMaxLength))
  /\ UNCHANGED <<disk, loader, nextRef, pc, ret, budget, loads, builds, last,
                 matchValue, matchQuery, response, host>>

(* the platform whose Fuse collection a tool call searches, if any *)
RankedPlatform(name, args) ==
  IF name \in GetTools \cup SearchTools \cup {"get_component_native_notes"}
  THEN ToolPlatform(name) ELSE args.platform

ToolRankings(name, args) ==
  LET components == listComponents(content, RankedPlatform(name, args), Absent)
  IN IF name \in SearchTools /\ ~IsNull(IndexOf(ToolPlatform(name)))
     THEN FuseRankings(IndexOf(ToolPlatform(name)).items)
     ELSE IF name \notin ListTools \cup SearchTools /\ components.ok
     THEN FuseRankings(components.val)
     ELSE {<<>>}

(* The call-tool handler of a server runs to completion and its result is  *)
(* held in response until it is sent.                                      *)
Handle(transport, name, args) ==
  /\ response = NoResponse
  /\ \E r \in ToolRankings(name, args) :
       response' =
         [transport |-> transport, name |-> name, arguments |-> args,
          result |-> IF transport = "netlify"
                     THEN handleToolCall(Fields(content, webSearchIndex, nativeSearchIndex,
                                                indexed), name, args, r)
                     ELSE CallToolRequest(Fields(content, webSearchIndex, nativeSearchIndex,
                                                 indexed), name, args, r)]
  /\ UNCHANGED <<disk, loader, nextRef, pc, ret, budget, loads, builds, last, snip, host>>

(* A tools/call request to a server whose loader is ready *)
CallTool(transport, name, args) == indexed /\ Handle(transport, name, args)

SendResult ==
  /\ response # NoResponse
  /\ response' = NoResponse
  /\ UNCHANGED <<disk, loader, nextRef, pc, ret, budget, loads, builds, last, snip, host>>

Next ==
  \/ \E c \in Callers : InitializeCall(c)
  \/ \E c \in Callers, io \in {"ok", "EIO"} : InitializeResume(c, io)
  \/ \E p \in Platforms, cat \in CategoryArgs : ListComponents(p, cat)
  \/ \E p \in Platforms : GetCategories(p)
  \/ \E p \in Platforms, n \in QueryNames : GetComponent(p, n)
  \/ \E p \in Platforms, n \in QueryNames, f \in FormatSet : GetComponentContent(p, n, f)
  \/ \E p \in Platforms, lim \in {0, 1, DefaultMaxResults} : Search(p, lim)
  \/ \E p \in Platforms, n \in QueryNames, lim \in {0, 1, DefaultSimilarLimit} :
       GetSimilarComponents(p, n, lim)
  \/ \E p \in Platforms, n \in QueryNames : GetAvailableFormats(p, n)
  \/ Respond

Spec == Init /\ [][Next]_vars

SpecQuery == InitQuery /\ [][Next]_vars

NextSnippet == ExtractSnippet

NextTools ==
  \/ \E c \in Callers : InitializeCall(c)
  \/ \E c \in Callers, io \in {"ok", "EIO"} : InitializeResume(c, io)
  \/ \E t \in Transports, name \in ToolNames :
       \E args \in ToolArguments(name) : CallTool(t, name, args)
  \/ SendResult

SpecTools == InitTools /\ [][NextTools]_vars

SpecSnippet == InitSnippet /\ [][NextSnippet]_vars

(* ------------------- the stdio and HTTP/SSE servers -------------------- *)

InitServer ==
  /\ disk \in ToolFiles
  /\ budget = 1
  /\ Constructed({1})
  /\ NoSnippet
  /\ response = NoResponse
  /\ server \in {Started(t) : t \in {"stdio", "sse"}}
  /\ initPromise = "null"
  /\ isInitialized = FALSE
  /\ http = [r \in Callers |-> NoRequest]

(* main calls contentLoader.initialize and awaits it *)
MainInitialize ==
  /\ server.phase = "main"
  /\ BeginInitialize(1)
  /\ server' = [server EXCEPT !.phase = "initialize"]
  /\ UNCHANGED <<initPromise, isInitialized, http>>

MainResume(io) ==
  /\ server.phase = "initialize"
  /\ EndInitialize(1, io)
  /\ server' = AfterInitialize(server, ret'[1])
  /\ UNCHANGED <<initPromise, isInitialized, http>>

(* a tools/call request arrives over the connected transport *)
ServeToolCall(name, args) ==
  /\ Serving(server)
  /\ Handle(server.transport, name, args)

NextServer ==
  \/ MainInitialize
  \/ \E io \in {"ok", "EIO"} : MainResume(io)
  \/ \E name \in ToolNames : \E args \in ToolArguments(name) : ServeToolCall(name, args)
  \/ SendResult

SpecServer == InitServer /\ [][NextServer]_vars

(* ------------------------ the Netlify function ------------------------- *)

InitNetlify ==
  /\ disk \in ToolFiles
  /\ budget = MaxCalls
  /\ Constructed(Callers)
  /\ NoSnippet
  /\ response = NoResponse
  /\ NoHost

InitializeEveryTime(promise) == TRUE

(* initialize of the function: "if (!initPromise)" *)
NoPromise(promise) == promise = "null"

RetryAfterFailure(outcome) == IF outcome = "ok" THEN "fulfilled" ELSE "null"

(* the promise contentLoader.initialize().then(...) once the load settles *)
Settled(outcome) == IF outcome = "ok" THEN "fulfilled" ELSE "rejected"

SkipInitialize(flag) == FALSE

(* the handler: "if (!isInitialized) await initialize();" *)
MustInitialize(flag) == ~flag

(* OPTIONS and GET requests are answered at once *)
Preflight(r) ==
  /\ http[r].pc = "none"
  /\ http' = [http EXCEPT ![r] = Answered(http[r], "OPTIONS", NoContent, 0)]
  /\ UNCHANGED <<disk, loader, nextRef, pc, ret, budget, loads, builds, last, snip,
                 response, server, initPromise, isInitialized>>

Info(r) ==
  /\ http[r].pc = "none"
  /\ http' = [http EXCEPT ![r] = Answered(http[r], "GET", OK, 0)]
  /\ UNCHANGED <<disk, loader, nextRef, pc, ret, budget, loads, builds, last, snip,
                 response, server, initPromise, isInitialized>>

(* a POST request: the first one that finds no promise invokes            *)
(* contentLoader.initialize, and every one that finds the flag unset      *)
(* awaits the shared promise                                              *)
Post(r) ==
  /\ http[r].pc = "none"
  /\ IF MustInitialize(isInitialized)
     THEN /\ http' = [http EXCEPT ![r] = Awaiting(http[r], "initialize", initPromise)]
          /\ IF NoPromise(initPromise)
             THEN BeginInitialize(r) /\ initPromise' = "pending"
             ELSE UNCHANGED <<disk, loader, nextRef, pc, ret, budget, loads, builds, last,
                              snip, response, initPromise>>
     ELSE /\ http' = [http EXCEPT ![r] = Awaiting(http[r], "json", initPromise)]
          /\ UNCHANGED <<disk, loader, nextRef, pc, ret, budget, loads, builds, last,
                         snip, response, initPromise>>
  /\ UNCHANGED <<server, isInitialized>>

(* the load settles; on success the then-callback sets the flag *)
InitializeSettles(c, io) ==
  /\ EndInitialize(c, io)
  /\ initPromise' = Settled(ret'[c])
  /\ isInitialized' = (isInitialized \/ ret'[c] = "ok")
  /\ UNCHANGED <<server, http>>

(* a handler resumes after its await of the shared promise *)
AfterInitializeAwait(r) ==
  /\ http[r].pc = "initialize"
  /\ initPromise \in {"fulfilled", "rejected"}
  /\ http' = [http EXCEPT ![r] = IF initPromise = "fulfilled"
                                  THEN [http[r] EXCEPT !.pc = "json"]
                                  ELSE Answered(http[r], "POST", InternalServerError,
                                                InternalError)]
  /\ UNCHANGED <<disk, loader, nextRef, pc, ret, budget, loads, builds, last, snip,
                 response, server, initPromise, isInitialized>>

(* the JSON-RPC bodies of POST requests; a body that is not JSON at all    *)
NetlifyCalls ==
  {[method |-> "tools/call", name |-> name, arguments |-> args] :
     name \in {"get_web_component"}, args \in ToolArguments("get_web_component")}
  \cup {[method |-> "tools/call", name |-> UnknownToolName,
         arguments |-> Arguments("", 0, Absent, Absent)]}

Bodies ==
  NetlifyCalls \cup {[method |-> m] : m \in {"malformed", "tools/list", "no/such"}}

(* the handler resumes after "await req.json()" and answers the request   *)
HandleBody(r, body) ==
  /\ http[r].pc = "json"
  /\ CASE body.method = "malformed" ->
            http' = [http EXCEPT ![r] = Answered(http[r], "POST", InternalServerError,
                                                 InternalError)]
       [] body.method = "tools/call" ->
            \E ranking \in ToolRankings(body.name, body.arguments) :
              http' = [http EXCEPT ![r] =
                         ToolAnswered(http[r],
                                      handleToolCall(Fields(content, webSearchIndex,
                                                            nativeSearchIndex, indexed),
                                                     body.name, body.arguments, ranking))]
       [] body.method = "tools/list" ->
            http' = [http EXCEPT ![r] = Answered(http[r], "POST", OK, 0)]
       [] OTHER -> http' = [http EXCEPT ![r] = Answered(http[r], "POST", OK, MethodNotFound)]
  /\ UNCHANGED <<disk, loader, nextRef, pc, ret, budget, loads, builds, last, snip,
                 response, server, initPromise, isInitialized>>

NextNetlify ==
  \/ \E r \in Callers : Preflight(r)
  \/ \E r \in Callers : Info(r)
  \/ \E r \in Callers : Post(r)
  \/ \E c \in Callers, io \in {"ok", "EIO"} : InitializeSettles(c, io)
  \/ \E r \in Callers : AfterInitializeAwait(r)
  \/ \E r \in Callers, body \in Bodies : HandleBody(r, body)

SpecNetlify == InitNetlify /\ [][NextNetlify]_vars

(* ============================ properties =============================== *)

InFlight == {c \in Callers : pc[c] = "readFile"}

Populated == ~IsNull(content) /\ ~IsNull(webSearchIndex) /\ ~IsNull(nativeSearchIndex)

Asked == last.op # "none"

Range(s) == {s[i] : i \in 1..Len(s)}

(* C1: for any interleaving of initialize calls, at most one load is in    *)
(* flight at a time (later callers wait for it instead of starting their   *)
(* own) and the indices are built at most once per process.                *)
C1_AtMostOneBuild == Cardinality(InFlight) <= 1 /\ builds <= 1

(* C2: while initialize has not completed, every query operation fails     *)
(* with a NotInitialized error and none returns a normal result.           *)
C2_QueriesFailNotInitialized ==
  (Asked /\ ~last.ready) =>
    (~last.ok /\ last.err \in {ContentNotLoaded, SearchIndexNotInitialized})

(* C3: a query succeeds only if, when it ran, the content and both search  *)
(* indices were all populated; partial states are not observable.          *)
C3_NoPartialStateObservable ==
  (Asked /\ last.ok) => last.saw = {"content", "web", "native"}

(* C4: once the engine is ready, no later step reassigns the content or    *)
(* either search index.                                                    *)
C4_NeverReassignedAfterReady ==
  [][indexed => UNCHANGED <<content, webSearchIndex, nativeSearchIndex>>]_vars

(* C5: ready is terminal (indexed never goes back to false) and whenever   *)
(* indexed is true the content and both search indices are non-null.       *)
C5_ReadyTerminal == [](indexed => Populated) /\ [][indexed => indexed']_vars

C5_Witness ==
  /\ indexed
  /\ \E c \in Callers : ret[c] = FailedToInitialize
  /\ \E c \in Callers : ret[c] = "ok"
  /\ Asked

(* C6: an initialize call made after a successful initialize returns       *)
(* without a second load or build and leaves content and indices unchanged.*)
C6_InitializeIdempotent ==
  [][\A c \in Callers :
       (indexed /\ InitializeCall(c)) =>
         (UNCHANGED <<loader, loads, builds, nextRef, pc>> /\ ret'[c] = "ok")]_vars

C6_Witness == indexed /\ InFlight = {} /\ MaxCalls - budget > loads

(* C7: if the document is missing, malformed, or lacks the web or native   *)
(* key, every initialize call fails with the load error and the engine     *)
(* never becomes ready.                                                    *)
BadDocument(file) ==
  \/ file.kind \in {"missing", "malformed", "null"}
  \/ file.kind = "object" /\ ~({"web", "native"} \subseteq DOMAIN file.doc)

C7_BadDocumentFails ==
  BadDocument(disk) =>
    /\ ~indexed
    /\ \A c \in Callers : ret[c] \in {"none", FailedToInitialize}

C7_Witness ==
  /\ disk.kind = "object"
  /\ "native" \notin DOMAIN disk.doc
  /\ ~IsNull(content)
  /\ \E c \in Callers : ret[c] = FailedToInitialize

(* ---- lookups in the ready state ---- *)

CategoriesOf(p) == content.doc[p]

(* the categories of platform p that contain a component named n *)
Holders(p, n) ==
  {i \in 1..Len(CategoriesOf(p)) :
     \E k \in 1..Len(CategoriesOf(p)[i].children) : CategoriesOf(p)[i].children[k].name = n}

(* the components of platform p named n *)
Named(p, n) ==
  UNION {{CategoriesOf(p)[i].children[k] :
            k \in {j \in 1..Len(CategoriesOf(p)[i].children) :
                     CategoriesOf(p)[i].children[j].name = n}}
         : i \in 1..Len(CategoriesOf(p))}

(* C8: in the ready state getComponent(p, n) succeeds exactly when some    *)
(* category of p contains a component named n; the record returned has     *)
(* name n and the name and label of a category of p that contains it;      *)
(* otherwise the call fails with NotFound.                                 *)
C8_GetComponent ==
  (last.op = "getComponent" /\ last.ready) =>
    /\ last.ok <=> Holders(last.platform, last.name) # {}
    /\ last.ok =>
         /\ last.val.name = last.name
         /\ \E i \in Holders(last.platform, last.name) :
              /\ last.val.categoryName = CategoriesOf(last.platform)[i].name
              /\ last.val.categoryLabel = CategoriesOf(last.platform)[i].label
    /\ ~last.ok => last.err = ComponentNotFound

C8_Witness ==
  /\ last.op = "getComponent" /\ last.ready /\ last.ok
  /\ Len(CategoriesOf(last.platform)) = 2
  /\ last.val.categoryName = CategoriesOf(last.platform)[2].name

(* C9: in the ready state getComponentContent(p, n, f) fails with NotFound *)
(* when no component named n exists in p, fails with FormatUnavailable (an *)
(* error different from NotFound) when the component exists but its field  *)
(* f is absent or empty, and otherwise returns the stored text of field f. *)
C9_GetComponentContent ==
  (last.op = "getComponentContent" /\ last.ready) =>
    /\ ContentNotAvailable # ComponentNotFound
    /\ Named(last.platform, last.name) = {} => (~last.ok /\ last.err = ComponentNotFound)
    /\ Named(last.platform, last.name) # {} =>
         \/ /\ last.ok
            /\ last.val # ""
            /\ \E item \in Named(last.platform, last.name) : item[last.format] = <<last.val>>
         \/ /\ ~last.ok
            /\ last.err = ContentNotAvailable
            /\ \E item \in Named(last.platform, last.name) :
                 item[last.format] \in {Absent, <<"">>}

C9_Witness ==
  /\ last.op = "getComponentContent" /\ last.ready
  /\ ~last.ok /\ last.err = ContentNotAvailable
  /\ \A item \in Named(last.platform, last.name) : item[last.format] = <<"">>

(* C10: for a component n present in platform p and each of the five       *)
(* formats f: f is in getAvailableFormats(p, n) exactly when               *)
(* getComponentContent(p, n, f) succeeds with non-empty text, and f is not *)
(* in it exactly when that call fails with FormatUnavailable; also when n  *)
(* occurs in more than one category of p.                                  *)
C10_FormatsRoundTrip ==
  (last.op = "getAvailableFormats" /\ last.ready /\ Named(last.platform, last.name) # {}) =>
    \A f \in FormatSet :
      LET r == getComponentContent(content, last.platform, last.name, f)
      IN IF f \in Range(last.val)
         THEN r.ok /\ r.val # ""
         ELSE ~r.ok /\ r.err = ContentNotAvailable

C10_Witness ==
  /\ last.op = "getAvailableFormats" /\ last.ready
  /\ Cardinality(Holders(last.platform, last.name)) = 2
  /\ Cardinality(Named(last.platform, last.name)) = 2
  /\ last.val # <<>>
  /\ Len(last.val) < Len(Formats)

(* ---- repeated names ---- *)

FirstHolder(p, n) == CHOOSE i \in Holders(p, n) : \A j \in Holders(p, n) : i <= j

LastHolder(p, n) == CHOOSE i \in Holders(p, n) : \A j \in Holders(p, n) : j <= i

(* the positions, among the children of category i of p, of the components named n *)
NamedAt(p, i, n) ==
  {k \in 1..Len(CategoriesOf(p)[i].children) : CategoriesOf(p)[i].children[k].name = n}

FirstNamedAt(p, i, n) == CHOOSE k \in NamedAt(p, i, n) : \A j \in NamedAt(p, i, n) : k <= j

(* the lookup recorded in last is answered from child k of category i *)
AnsweredFrom(i, k) ==
  LET cat == CategoriesOf(last.platform)[i]
      item == cat.children[k]
  IN IF last.op = "getComponent"
     THEN /\ last.ok
          /\ last.val.categoryName = cat.name
          /\ last.val.categoryLabel = cat.label
          /\ \A f \in FormatSet : last.val[f] = item[f]
     ELSE IF item[last.format] \in {Absent, <<"">>}
          THEN ~last.ok /\ last.err = ContentNotAvailable
          ELSE last.ok /\ item[last.format] = <<last.val>>

RepeatedLookup ==
  /\ last.op \in {"getComponent", "getComponentContent"}
  /\ last.ready
  /\ Cardinality(Holders(last.platform, last.name)) > 1

(* C11 (as claimed): when a component name occurs in more than one         *)
(* category of a platform, getComponent and getComponentContent resolve to *)
(* the occurrence in the category that comes last in load order.           *)
C11_LastCategoryWins ==
  RepeatedLookup =>
    \E k \in NamedAt(last.platform, LastHolder(last.platform, last.name), last.name) :
      AnsweredFrom(LastHolder(last.platform, last.name), k)

(* C11 (amended): when a component name occurs in more than one category   *)
(* of a platform, getComponent and getComponentContent resolve to the      *)
(* first occurrence in load order: the first child of that name in the     *)
(* first category that has one.                                            *)
C11_FirstCategoryWins ==
  RepeatedLookup =>
    AnsweredFrom(FirstHolder(last.platform, last.name),
                 FirstNamedAt(last.platform, FirstHolder(last.platform, last.name), last.name))

C11_Witness ==
  /\ RepeatedLookup
  /\ last.op = "getComponentContent"
  /\ last.ok
  /\ \A k \in NamedAt(last.platform, LastHolder(last.platform, last.name), last.name) :
       CategoriesOf(last.platform)[LastHolder(last.platform, last.name)].children[k][last.format]
         \notin {Absent, <<"">>, <<last.val>>}

(* ---- listings ---- *)

(* the entry a listing carries for child k of category i of platform p *)
EntryOf(p, i, k) ==
  LET cat == CategoriesOf(p)[i]
      item == cat.children[k]
  IN [name |-> item.name, displayName |-> item.label, category |-> cat.name, platform |-> p,
      hasGherkin |-> item.gherkin \notin {Absent, <<"">>},
      hasCondensed |-> item.condensed \notin {Absent, <<"">>},
      hasDeveloperNotes |-> item.developerNotes \notin {Absent, <<"">>},
      hasAndroidNotes |-> item.androidDeveloperNotes \notin {Absent, <<"">>},
      hasIOSNotes |-> item.iosDeveloperNotes \notin {Absent, <<"">>}]

(* the components (category index, child index) of the categories cs of p *)
ComponentsIn(p, cs) ==
  UNION {{<<i, k>> : k \in 1..Len(CategoriesOf(p)[i].children)} : i \in cs}

(* the listing in last has one entry for each component of the categories  *)
(* cs, no other entry, and is in ascending order of name                   *)
ListsExactly(cs) ==
  LET p == last.platform
      want == ComponentsIn(p, cs)
  IN /\ last.ok
     /\ Len(last.val) = Cardinality(want)
     /\ \A e \in Range(last.val) \cup {EntryOf(p, q[1], q[2]) : q \in want} :
          Cardinality({j \in 1..Len(last.val) : last.val[j] = e})
            = Cardinality({q \in want : EntryOf(p, q[1], q[2]) = e})
     /\ \A a, b \in 1..Len(last.val) : a < b => last.val[a].name <= last.val[b].name

(* C12: listComponents(p) without a category filter returns exactly one    *)
(* entry per component of every category of p, so its length is the total  *)
(* component count of p, in ascending order of name.                       *)
C12_ListAll ==
  (last.op = "listComponents" /\ last.ready /\ last.category = Absent) =>
    /\ ListsExactly(1..Len(CategoriesOf(last.platform)))
    /\ Len(last.val) = ComponentCount(CategoriesOf(last.platform))

C12_Witness ==
  /\ last.op = "listComponents" /\ last.ready /\ last.category = Absent
  /\ Len(CategoriesOf(last.platform)) = 2
  /\ Len(last.val) = 2
  /\ last.val[1].name < last.val[2].name
  /\ last.val[1].category = CategoriesOf(last.platform)[2].name

(* the categories of platform p named c *)
CategoriesNamed(p, c) == {i \in 1..Len(CategoriesOf(p)) : CategoriesOf(p)[i].name = c}

(* C13 (as claimed): for every category filter value c supplied,           *)
(* listComponents(p, c) returns exactly the components of the categories   *)
(* of p named c, the empty list (and no error) when there is none.         *)
C13_FilterAnyValue ==
  (last.op = "listComponents" /\ last.ready /\ last.category # Absent) =>
    ListsExactly(CategoriesNamed(last.platform, last.category[1]))

(* C13 (amended): for every non-empty category filter value c supplied,    *)
(* listComponents(p, c) returns exactly the components of the categories   *)
(* of p named c, the empty list (and no error) when there is none.         *)
C13_FilterNonEmpty ==
  (last.op = "listComponents" /\ last.ready /\ last.category # Absent
     /\ last.category[1] # 0) =>
    ListsExactly(CategoriesNamed(last.platform, last.category[1]))

C13_Witness ==
  /\ last.op = "listComponents" /\ last.ready /\ last.category # Absent
  /\ CategoriesNamed(last.platform, last.category[1]) # {}
  /\ Len(last.val) > 0
  /\ Len(last.val) < ComponentCount(CategoriesOf(last.platform))

(* ---- search ---- *)

(* C14: search(p, q, k) returns at most k results, each with a relevance   *)
(* in [0, 1], in non-increasing order of relevance.                        *)
C14_SearchBounded ==
  (last.op = "search" /\ last.ok) =>
    /\ Len(last.val) <= last.limit
    /\ \A i \in 1..Len(last.val) : 0 <= last.val[i].relevance /\ last.val[i].relevance <= 1
    /\ \A i, j \in 1..Len(last.val) :
         i < j => last.val[i].relevance >= last.val[j].relevance

C14_Witness ==
  /\ last.op = "search" /\ last.ok /\ last.ready
  /\ last.limit = 1
  /\ Len(last.val) = 1
  /\ ComponentCount(CategoriesOf(last.platform)) > 1

(* component q comes before component r in the order in which the index    *)
(* builder flattens a platform: category order, then order of children     *)
Before(q, r) == q[1] < r[1] \/ (q[1] = r[1] /\ q[2] < r[2])

(* C15: among search results with equal relevance, results appear in the   *)
(* order in which the index builder flattened the platform's components.   *)
C15_TiesInCorpusOrder ==
  (last.op = "search" /\ last.ok /\ last.ready) =>
    \E f \in [1..Len(last.val) ->
                ComponentsIn(last.platform, 1..Len(CategoriesOf(last.platform)))] :
      /\ \A i \in 1..Len(last.val) :
           /\ last.val[i].component = EntryOf(last.platform, f[i][1], f[i][2]).name
           /\ last.val[i].category = EntryOf(last.platform, f[i][1], f[i][2]).category
      /\ \A i, j \in 1..Len(last.val) :
           (i < j /\ last.val[i].relevance = last.val[j].relevance) => Before(f[i], f[j])

(* ---- suggestions and formats ---- *)

(* the names of the components of platform p *)
NamesOf(p) ==
  {EntryOf(p, q[1], q[2]).name : q \in ComponentsIn(p, 1..Len(CategoriesOf(p)))}

(* C18: in the ready state getSimilarComponents(p, name, limit) does not   *)
(* fail and returns at most limit names (limit is 5 when omitted), each    *)
(* the name of a component of p; the list may be empty.                    *)
C18_SimilarBounded ==
  (last.op = "getSimilarComponents" /\ last.ready) =>
    /\ last.ok
    /\ Len(last.val) <= last.limit
    /\ \A i \in 1..Len(last.val) : last.val[i] \in NamesOf(last.platform)

C18_Witness ==
  /\ last.op = "getSimilarComponents" /\ last.ready /\ last.ok
  /\ last.name \notin NamesOf(last.platform)
  /\ last.limit = 1
  /\ Len(last.val) = 1
  /\ ComponentCount(CategoriesOf(last.platform)) > 1

(* the formats whose field of item is present and not empty *)
FormatsPresent(item) == {f \in FormatSet : item[f] \notin {Absent, <<"">>}}

(* C19: getAvailableFormats(p, n) returns the empty list and raises no     *)
(* error when no component named n exists in p; when one exists it returns *)
(* exactly the formats, among the five, whose field of that component is   *)
(* present and not empty.                                                  *)
C19_AvailableFormats ==
  (last.op = "getAvailableFormats" /\ last.ready) =>
    /\ last.ok
    /\ Named(last.platform, last.name) = {} => last.val = <<>>
    /\ Named(last.platform, last.name) # {} =>
         \E item \in Named(last.platform, last.name) :
           /\ Range(last.val) = FormatsPresent(item)
           /\ Len(last.val) = Cardinality(FormatsPresent(item))

C19_Witness ==
  /\ last.op = "getAvailableFormats" /\ last.ready
  /\ Named(last.platform, last.name) = {}
  /\ ComponentCount(CategoriesOf(last.platform)) > 1
  /\ last.ok /\ last.val = <<>>

(* ---- snippets ---- *)

HasLeadingMark(str) == Len(str) >= Len(Ellipsis) /\ SubSeq(str, 1, Len(Ellipsis)) = Ellipsis

HasTrailingMark(str) ==
  Len(str) >= Len(Ellipsis) /\ SubSeq(str, Len(str) - Len(Ellipsis) + 1, Len(str)) = Ellipsis

(* the part of a snippet taken from the field: the snippet without its     *)
(* ellipsis markers (field texts contain no period)                        *)
Window(str) ==
  SubSeq(str, IF HasLeadingMark(str) THEN Len(Ellipsis) + 1 ELSE 1,
              IF HasTrailingMark(str) THEN Len(str) - Len(Ellipsis) ELSE Len(str))

(* the 0-based positions at which q occurs in str, ignoring case *)
OccursAt(str, q) ==
  {i \in 0..(Len(str) - Len(q)) :
     \A j \in 1..Len(q) : Lower(str[i + j]) = Lower(q[j])}

FirstOccurrence(str, q) == CHOOSE i \in OccursAt(str, q) : \A j \in OccursAt(str, q) : i <= j

(* C16: for every field text and every query, the window of the snippet    *)
(* (its ellipsis markers not counted) is at most 200 characters long and   *)
(* has at most 50 characters before the first case-insensitive occurrence  *)
(* of the query.                                                           *)
C16_WindowAtMost200 ==
  snippet.called =>
    /\ Len(Window(snippet.val)) <= 200
    /\ OccursAt(matchValue, matchQuery) # {} =>
         /\ OccursAt(Window(snippet.val), matchQuery) # {}
         /\ FirstOccurrence(Window(snippet.val), matchQuery) <= 50

LookupTools ==
  GetTools \cup FormatTools \cup {"get_component_native_notes", "list_component_formats"}

(* C20: in every transport, every failed lookup-style tool call returns an *)
(* error result that carries the attempted component name and suggested    *)
(* alternatives and, for the tools that fetch one format, the available    *)
(* formats; never the error message alone.                                 *)
C20_ErrorsCarryContext ==
  (response.name \in LookupTools /\ response.arguments # NoArguments
   /\ response.result.isError) =>
    /\ {"component", "suggestions"} \subseteq DOMAIN response.result.body
    /\ response.result.body.component = response.arguments.component
    /\ response.name \in FormatTools \cup {"get_component_native_notes"} =>
         "availableFormats" \in DOMAIN response.result.body

(* ---- the ready state and retries ---- *)

QueryOperations ==
  {"listComponents", "getCategories", "getComponent", "getComponentContent", "search",
   "getSimilarComponents", "getAvailableFormats"}

Settling(c) == pc[c] = "readFile" /\ pc'[c] = "idle"

Field(item, format) ==
  CASE format = "gherkin" -> item.gherkin
    [] format = "condensed" -> item.condensed
    [] format = "developerNotes" -> item.developerNotes
    [] format = "androidDeveloperNotes" -> item.androidDeveloperNotes
    [] format = "iosDeveloperNotes" -> item.iosDeveloperNotes

(* the components of a partition of the document on disk, in load order *)
Partition(key) == FlattenItems(disk.doc[key])

NamedIn(key, n) == {i \in 1..Len(Partition(key)) : Partition(key)[i].name = n}

FirstNamedIn(key, n) ==
  Partition(key)[CHOOSE i \in NamedIn(key, n) : \A j \in NamedIn(key, n) : i <= j]

(* C30: get_component_native_notes looks the component up in the native    *)
(* platform whatever the platform argument is, and returns the             *)
(* iosDeveloperNotes field when the argument is ios and the                *)
(* androidDeveloperNotes field for every other value of the argument;      *)
(* the call fails when the component or the field is missing.              *)
C30_NativeNotes ==
  response.name = "get_component_native_notes" =>
    LET n == response.arguments.component
        format == IF response.arguments.platform = "ios"
                  THEN "iosDeveloperNotes" ELSE "androidDeveloperNotes"
    IN IF NamedIn("native", n) # {} /\ Truthy(Field(FirstNamedIn("native", n), format))
       THEN /\ ~response.result.isError
            /\ response.result.body = Field(FirstNamedIn("native", n), format)[1]
       ELSE response.result.isError

C30_Witness ==
  /\ response.name = "get_component_native_notes"
  /\ response.arguments.platform \notin {"ios", "android"}
  /\ ~response.result.isError
  /\ response.result.body = "android"

PlatformTools == FormatTools \cup {"list_component_formats"}

(* the texts held by the components of the how-to-test partition *)
HowToTestTexts ==
  {Field(Partition("how-to-test")[i], f)[1] :
     i \in {k \in 1..Len(Partition("how-to-test")) : TRUE},
     f \in {g \in FormatSet : \E k \in 1..Len(Partition("how-to-test")) :
                                 Truthy(Field(Partition("how-to-test")[k], g))}}

(* C23: whatever platform argument a client supplies, a tool call that     *)
(* succeeds has read the web or the native partition only, and no tool     *)
(* returns content of the how-to-test partition.                           *)
C23_OnlyWebOrNative ==
  /\ (response.name \in PlatformTools /\ ~response.result.isError) =>
       response.arguments.platform \in Platforms
  /\ (response.name \in FormatTools /\ ~response.result.isError) =>
       response.result.body \notin HowToTestTexts

(* ---- the result limit of the search tools ---- *)

(* C24: a search tool passes the client's max_results to search as the     *)
(* result limit whenever it is supplied, and 10 only when it is omitted:   *)
(* the tool never returns more results than the supplied max_results.      *)
C24_MaxResultsHonoured ==
  (response.name \in SearchTools /\ ~response.result.isError) =>
    Len(response.result.body) <=
      (IF response.arguments.max_results = Absent THEN 10
       ELSE response.arguments.max_results[1])

(* ---- exceptions in tool calls ---- *)

ErrorMessages ==
  {ContentNotLoaded, SearchIndexNotInitialized, ComponentNotFound, ContentNotAvailable,
   NotIterable, UnknownTool, CannotReadProperties}

(* the tool calls in which the dispatch or a core operation throws: an     *)
(* unknown tool, a property read of missing arguments, a platform that is  *)
(* no key of the document, a component or a format that is not there       *)
Throws(name, args) ==
  \/ name = UnknownToolName
  \/ name \notin ListTools /\ args = NoArguments
  \/ name \in GetTools /\ NamedIn(ToolPlatform(name), args.component) = {}
  \/ name \in PlatformTools /\ args.platform \notin DOMAIN disk.doc
  \/ /\ name \in PlatformTools
     /\ args.platform \in DOMAIN disk.doc
     /\ \/ NamedIn(args.platform, args.component) = {}
        \/ /\ name \in FormatTools
           /\ ~Truthy(Field(FirstNamedIn(args.platform, args.component), ToolFormat(name)))
  \/ /\ name = "get_component_native_notes"
     /\ \/ NamedIn("native", args.component) = {}
        \/ ~Truthy(Field(FirstNamedIn("native", args.component), NativeNotesFormat(args)))

(* C29: in every transport the call-tool handler returns a result for      *)
(* every tool name and every argument value; when the dispatch or a core   *)
(* operation throws, also inside a handler's own error path, the result    *)
(* has isError set and carries an error message.                           *)
C29_NoExceptionEscapes ==
  response # NoResponse =>
    /\ DOMAIN response.result = {"isError", "body"}
    /\ Throws(response.name, response.arguments) =>
         /\ response.result.isError
         /\ "error" \in DOMAIN response.result.body
         /\ response.result.body.error \in ErrorMessages

(* a throw raised while the handler builds its suggestions *)
C29_Witness ==
  /\ response.transport = "stdio"
  /\ response.name \in FormatTools
  /\ response.arguments.platform = "ios"
  /\ response.result.isError
  /\ DOMAIN response.result.body = {"error"}

(* ---- start-up of the servers ---- *)

(* C22: in the stdio and the HTTP/SSE server the transport is connected    *)
(* (the port is listened on) only after contentLoader.initialize has       *)
(* succeeded; when initialize fails the failure is reported and the        *)
(* process exits with code 1, and no tool call is ever served by a process *)
(* whose initialize has not succeeded.                                     *)
C22_ConnectAfterInitialize ==
  /\ Serving(server) => (ret[1] = "ok" /\ indexed)
  /\ ret[1] = FailedToInitialize =>
       (server.phase = "exited" /\ server.exitCode = 1 /\ server.reported)
  /\ response # NoResponse => (Serving(server) /\ ret[1] = "ok")
  /\ server.phase = "exited" => response = NoResponse

C22_Witness ==
  /\ server.transport = "sse"
  /\ server.phase = "exited"
  /\ server.exitCode = 1
  /\ ret[1] = FailedToInitialize
  /\ ~indexed

(* ---- initialization of the Netlify function ---- *)

Invocations == MaxCalls - budget

InitializeFailed == \E c \in Callers : ret[c] = FailedToInitialize

(* C25: in the Netlify function contentLoader.initialize is invoked at     *)
(* most once per process, whatever the interleaving of requests: every     *)
(* request that needs initialization awaits the one shared promise.        *)
C25_InitializeOnce ==
  /\ Invocations <= 1
  /\ loads <= 1
  /\ \A r \in Callers :
       http[r].pc = "initialize" => (initPromise # "null" /\ Invocations = 1)

C25_Witness ==
  /\ initPromise = "pending"
  /\ \E r \in Callers : http[r].pc = "initialize" /\ http[r].found = "null"
  /\ \E r \in Callers : http[r].pc = "initialize" /\ http[r].found = "pending"

(* C26: in the Netlify function no tool call is dispatched before          *)
(* contentLoader.initialize has resolved successfully: isInitialized is    *)
(* true only after a successful initialize, and a POST request whose       *)
(* initialization fails is answered with HTTP 500 and JSON-RPC error       *)
(* -32603 without a tool handler having run.                               *)
C26_NoToolBeforeInitialize ==
  /\ isInitialized => (indexed /\ \E c \in Callers : ret[c] = "ok")
  /\ \A r \in Callers :
       /\ (http[r].tool \/ http[r].pc = "json") => isInitialized
       /\ (http[r].pc = "done" /\ http[r].method = "POST" /\ ~isInitialized) =>
            (http[r].status = 500 /\ http[r].code = -32603 /\ ~http[r].tool)

C26_Witness ==
  /\ InitializeFailed
  /\ \E r \in Callers :
       /\ http[r].pc = "done"
       /\ http[r].found = "pending"
       /\ http[r].status = 500
  /\ \E r \in Callers : http[r].pc = "initialize"

(* C27: in the Netlify function, once the initialization attempt has       *)
(* failed the rejected promise is kept: contentLoader.initialize is not    *)
(* invoked again, every later POST request is answered with HTTP 500, and  *)
(* the process never becomes initialized.                                  *)
C27_FailureIsPermanent ==
  /\ [](InitializeFailed => (initPromise = "rejected" /\ ~isInitialized /\ ~indexed))
  /\ [][InitializeFailed => (budget' = budget /\ loads' = loads)]_vars
  /\ [](\A r \in Callers :
          (http[r].found = "rejected" /\ http[r].pc = "done") =>
            (http[r].status = 500 /\ ~http[r].tool))

C27_Witness ==
  /\ initPromise = "rejected"
  /\ Invocations = 1
  /\ \E r \in Callers :
       /\ http[r].found = "rejected"
       /\ http[r].pc = "done"
       /\ http[r].status = 500

====
